---- MODULE Spec2Model ----
(***************************************************************************)
(* wrangle_ixi.py: split the IxI sheet of SUT-98-22.xlsx, year by year,    *)
(* into a main matrix, a final demand table and a GVA matrix.              *)
(*                                                                         *)
(* The sheet is modelled by its shape (rows, ncols) and by the three       *)
(* columns the script reads cell by cell (Year, Code, Name).  A table is   *)
(* modelled by the grid positions its data comes from (rows, cols) and by  *)
(* its two label sequences (index, columns).  A run of consecutive grid    *)
(* columns, and the list of header cells read from such a run, is the      *)
(* record [start, len]: the columns start .. start + len - 1.              *)
(***************************************************************************)
EXTENDS Integers, Sequences, FiniteSets, TLC

\* ------------------------------------------------------------------ bounds
MaxDataRows == 2
MaxYear == 2

\* ------------------------------------------------------- program constants
COL_YEAR == 0
COL_SIC == 1
COL_NAME == 2
COL_MATRIX_START == 3
COL_MATRIX_END == 100
COL_FINAL_DEMAND_START == 102
COL_FINAL_DEMAND_END == 116
HEADER_ROW == 6
DATA_START == 7

GVA_SIC_CODES ==
    {"TDU", "RUKImp", "RoWImp", "TIU", "TlSPrds", "TlSPrdn", "CoE", "GOS", "GVA", "TOut"}

\* A missing cell: NaN in the Year column, "<NA>" in a text column.
NaN == -1
NA == "<NA>"

\* ------------------------------------------------------------------ inputs
YearCells == 1..MaxYear
CodeCells == {"CoE", "A01", NA}
Widths == {2, 60, 110, 118}
PreambleHits == {HEADER_ROW}
HeaderLens == {57, 90, 98, 105}
FdHeaderLens == {0, 8, 15}

NameOf(code) ==
    CASE code = "CoE" -> "Compensation of employees"
      [] code = "A01" -> "Agriculture"
      [] OTHER -> NA

DataRow(y, c) == [year |-> y, code |-> c, name |-> NameOf(c)]

BlankRow == [year |-> NaN, code |-> NA, name |-> NA]

DataRowCells == {DataRow(y, c) : y \in YearCells \cup {NaN}, c \in CodeCells}

SeqsUpTo(S, n) == UNION {[1..k -> S] : k \in 0..n}

\* Rows 0..HEADER_ROW: titles and the header row; at most one of them holds a
\* year-like value in column 0.
Preambles ==
    {[k \in 1..(HEADER_ROW + 1) |-> BlankRow]} \cup
    {[k \in 1..(HEADER_ROW + 1) |-> IF k = p + 1 THEN DataRow(y, c) ELSE BlankRow] :
        p \in PreambleHits, y \in YearCells, c \in {"CoE", "A01"}}

Grids ==
    {[k \in 1..3 |-> BlankRow]} \cup
    {pre \o data : pre \in Preambles, data \in SeqsUpTo(DataRowCells, MaxDataRows)}

FailPoints == {"none", "makedirs", "main_matrix", "final_demand", "gva_matrix"}

VARIABLES
    grid,                   \* df: the rows of the sheet (Year, Code, Name cells)
    ncols,                  \* df.shape[1]
    pc,                     \* position of main()
    err,                    \* the exception that ended the run, or "none"
    industry_headers,       \* main(): industry_headers
    final_demand_headers,   \* main(): final_demand_headers
    years,                  \* main(): years
    idx,                    \* position of the for loop in years (1-based)
    ret,                    \* the last return value of separate_matrices
    sep,                    \* the row split of each separate_matrices call
    output,                 \* the CSV files on disk
    log                     \* the files in the order they were written

vars == <<grid, ncols, pc, err, industry_headers, final_demand_headers, years,
          idx, ret, sep, output, log>>

\* ----------------------------------------------------------------- helpers
Min(a, b) == IF a < b THEN a ELSE b
Max(a, b) == IF a > b THEN a ELSE b
Range(s) == {s[k] : k \in 1..Len(s)}

NRows == Len(grid)
Row(i) == grid[i + 1]

\* Positions start..stop-1 of an axis of length n, clipped to the axis
\* (iloc / list slicing never raises on an out-of-range slice).
ILocSliceStopSlip(n, start, stop) ==
    [start |-> start, len |-> Max(0, Min(stop - 1, n) - start)]
ILocSliceUnclipped(n, start, stop) == [start |-> start, len |-> Max(0, stop - start)]
ILocSlice(n, start, stop) ==
    [start |-> start, len |-> Max(0, Min(stop, n) - start)]

\* labels[:k]
ListPrefix(labels, k) == [start |-> labels.start, len |-> Min(k, labels.len)]

\* The grid columns of a run.
Cols(c) == c.start .. (c.start + c.len - 1)

NoCols == [start |-> 0, len |-> 0]

\* Series.dropna()
dropna(s) == LET keep(v) == v # NaN IN SelectSeq(s, keep)

\* Series.unique(): the distinct values in order of first appearance.
RECURSIVE unique(_)
unique(s) ==
    IF s = <<>> THEN <<>>
    ELSE LET r == unique(SubSeq(s, 1, Len(s) - 1))
             v == s[Len(s)]
         IN IF v \in Range(r) THEN r ELSE Append(r, v)

\* sorted(): ascending insertion sort.
RECURSIVE Insert(_, _)
Insert(v, s) ==
    IF s = <<>> THEN <<v>>
    ELSE IF v <= Head(s) THEN <<v>> \o s
         ELSE <<Head(s)>> \o Insert(v, Tail(s))

RECURSIVE sorted(_)
sorted(s) == IF s = <<>> THEN <<>> ELSE Insert(Head(s), sorted(Tail(s)))

\* Series.astype(str) on the Code column: a missing cell becomes "nan".
astype_str(c) == IF c = NA THEN "nan" ELSE c

\* ------------------------------------------------------- extract_year_data
\* df.iloc[:, COL_YEAR] == year, for grid row i; NaN equals nothing.
year_mask_or_missing(i, year) == Row(i).year = year \/ Row(i).year = NaN
year_mask(i, year) == Row(i).year # NaN /\ year # NaN /\ Row(i).year = year

\* The grid rows of a year, in grid order (every row of df is tested).
extract_year_data(year) ==
    LET keep(i) == year_mask(i, year)
    IN SelectSeq([k \in 1..NRows |-> k - 1], keep)

\* ------------------------------------------------------- separate_matrices
industry_mask_typo(i) == astype_str(Row(i).code) \notin (GVA_SIC_CODES \ {"CoE"})
industry_mask(i) == astype_str(Row(i).code) \notin GVA_SIC_CODES

industry_rows_unmasked(year_data) == year_data
industry_rows_of(year_data) == SelectSeq(year_data, industry_mask)

gva_rows_of(year_data) ==
    LET keep(i) == ~industry_mask(i) IN SelectSeq(year_data, keep)

\* industry_rows.iloc[:, COL_NAME].values
row_labels_from_code(rows) == [k \in 1..Len(rows) |-> Row(rows[k]).code]
row_labels(rows) == [k \in 1..Len(rows) |-> Row(rows[k]).name]

\* DataFrame.columns = labels raises ValueError unless the lengths agree.
columns_fit_lenient(width, labels) == TRUE
columns_fit(width, labels) == labels.len = width

NoTable == [index |-> <<>>, rows |-> <<>>, cols |-> NoCols, columns |-> NoCols]

Raise(e, year_data) ==
    [err |-> e, year_data |-> year_data, industry_rows |-> <<>>, gva_rows |-> <<>>,
     main_matrix |-> NoTable, final_demand |-> NoTable, gva_matrix |-> NoTable]

NoRet == Raise("none", <<>>)

separate_matrices(year_data, ih, fh) ==
    LET industry_rows == industry_rows_of(year_data)
        gva_rows == gva_rows_of(year_data)
        mcols == ILocSlice(ncols, COL_MATRIX_START, COL_MATRIX_END + 1)
        fcols == ILocSlice(ncols, COL_FINAL_DEMAND_START, COL_FINAL_DEMAND_END + 1)
        mlabels == ListPrefix(ih, mcols.len)
    IN IF ncols <= COL_SIC THEN Raise("IndexError", year_data)
       ELSE IF ~columns_fit(mcols.len, mlabels) THEN Raise("ValueError", year_data)
       ELSE IF ncols <= COL_NAME THEN Raise("IndexError", year_data)
       ELSE IF ~columns_fit(fcols.len, fh) THEN Raise("ValueError", year_data)
       ELSE [err |-> "none",
             year_data |-> year_data,
             industry_rows |-> industry_rows,
             gva_rows |-> gva_rows,
             main_matrix |-> [index |-> row_labels(industry_rows),
                              rows |-> industry_rows,
                              cols |-> mcols,
                              columns |-> mlabels],
             final_demand |-> [index |-> row_labels(industry_rows),
                               rows |-> industry_rows,
                               cols |-> fcols,
                               columns |-> fh],
             gva_matrix |-> [index |-> row_labels(gva_rows),
                             rows |-> gva_rows,
                             cols |-> mcols,
                             columns |-> mlabels]]

\* ----------------------------------------------------------- save_matrices
\* The files written before the step fp raises (all three when fp = "none").
save_matrices(year, r, fp) ==
    LET all == <<[year |-> year, file |-> "main_matrix", table |-> r.main_matrix],
                 [year |-> year, file |-> "final_demand", table |-> r.final_demand],
                 [year |-> year, file |-> "gva_matrix", table |-> r.gva_matrix]>>
        n == CASE fp = "makedirs" -> 0
               [] fp = "main_matrix" -> 0
               [] fp = "final_demand" -> 1
               [] fp = "gva_matrix" -> 2
               [] OTHER -> 3
    IN SubSeq(all, 1, n)

\* to_csv overwrites the file of the same year and name.
Written(files) ==
    {f \in output : \A k \in 1..Len(files) :
        ~(files[k].year = f.year /\ files[k].file = f.file)} \cup Range(files)

\* -------------------------------------------------------------------- main
\* years = sorted(df.iloc[7:, COL_YEAR].dropna().unique())
years_unsorted ==
    unique(dropna([k \in 1..Max(0, NRows - DATA_START) |-> Row(DATA_START + k - 1).year]))
years_of_grid ==
    sorted(unique(dropna([k \in 1..Max(0, NRows - DATA_START) |-> Row(DATA_START + k - 1).year])))

\* An exception raised in the loop body leaves main(): nothing catches it.
after_save_swallowed(fp) == "loop"
after_save(fp) == IF fp = "none" THEN "loop" ELSE "failed"

Init ==
    /\ grid \in Grids
    /\ ncols \in Widths
    /\ pc = "start"
    /\ err = "none"
    /\ industry_headers = NoCols
    /\ final_demand_headers = NoCols
    /\ years = <<>>
    /\ idx = 0
    /\ ret = NoRet
    /\ sep = {}
    /\ output = {}
    /\ log = <<>>

\* main(), lines 96-111: load, headers, years, output directory.
Main_Setup ==
    /\ pc = "start"
    /\ IF NRows <= HEADER_ROW \/ ncols <= COL_YEAR
       THEN /\ pc' = "failed"
            /\ err' = "IndexError"
            /\ UNCHANGED <<industry_headers, final_demand_headers, years, idx>>
       ELSE /\ industry_headers' = ILocSlice(ncols, COL_MATRIX_START, COL_MATRIX_END + 1)
            /\ final_demand_headers' =
                   ILocSlice(ncols, COL_FINAL_DEMAND_START, COL_FINAL_DEMAND_END + 1)
            /\ years' = years_of_grid
            /\ \E ok \in BOOLEAN :
                   IF ok THEN pc' = "loop" /\ err' = "none" /\ idx' = 1
                   ELSE pc' = "failed" /\ err' = "OSError" /\ idx' = 0
    /\ UNCHANGED <<grid, ncols, ret, sep, output, log>>

\* main(), lines 115-123: one iteration of the loop over years.
Main_Loop ==
    /\ pc = "loop"
    /\ idx <= Len(years)
    /\ LET year == years[idx]
           year_data == extract_year_data(year)
           r == separate_matrices(year_data, industry_headers, final_demand_headers)
       IN /\ ret' = r
          /\ IF r.err # "none"
             THEN /\ pc' = "failed"
                  /\ err' = r.err
                  /\ UNCHANGED <<sep, output, log, idx>>
             ELSE /\ sep' = sep \cup {[year |-> year, year_data |-> r.year_data,
                                       industry_rows |-> r.industry_rows,
                                       gva_rows |-> r.gva_rows]}
                  /\ \E fp \in FailPoints :
                        LET files == save_matrices(year, r, fp)
                        IN /\ output' = Written(files)
                           /\ log' = log \o [k \in 1..Len(files) |->
                                                <<files[k].year, files[k].file>>]
                           /\ pc' = after_save(fp)
                           /\ err' = IF fp = "none" THEN err ELSE "OSError"
                           /\ idx' = IF after_save(fp) = "loop" THEN idx + 1 ELSE idx
    /\ UNCHANGED <<grid, ncols, industry_headers, final_demand_headers, years>>

\* main(), lines 125-131: the loop is over.
Main_Done ==
    /\ pc = "loop"
    /\ idx > Len(years)
    /\ pc' = "done"
    /\ UNCHANGED <<grid, ncols, err, industry_headers, final_demand_headers, years,
                   idx, ret, sep, output, log>>

Next == Main_Setup \/ Main_Loop \/ Main_Done

Spec == Init /\ [][Next]_vars

\* ------------------------------------------- separate_matrices on its own
\* A direct call of separate_matrices: the rows of one year of a grid, with
\* label lists that need not come from the same grid.
FnGrids ==
    {pre \o data : pre \in {[k \in 1..(HEADER_ROW + 1) |-> BlankRow]},
                   data \in SeqsUpTo(DataRowCells, MaxDataRows)}

FnInit ==
    /\ grid \in FnGrids
    /\ ncols \in Widths \ {2}
    /\ pc = "call"
    /\ err = "none"
    /\ industry_headers \in {[start |-> COL_MATRIX_START, len |-> n] : n \in HeaderLens}
    /\ final_demand_headers \in
           {[start |-> COL_FINAL_DEMAND_START, len |-> n] : n \in FdHeaderLens}
    /\ years = <<>>
    /\ idx = 0
    /\ ret = NoRet
    /\ sep = {}
    /\ output = {}
    /\ log = <<>>

Fn_Call ==
    /\ pc = "call"
    /\ \E year \in YearCells :
          LET r == separate_matrices(extract_year_data(year), industry_headers,
                                     final_demand_headers)
          IN /\ ret' = r
             /\ err' = r.err
             /\ pc' = "returned"
    /\ UNCHANGED <<grid, ncols, industry_headers, final_demand_headers, years, idx,
                   sep, output, log>>

FnNext == Fn_Call

SpecFn == FnInit /\ [][FnNext]_vars

\* ------------------------------------------------------------- properties
GridRows == 0..(NRows - 1)
TableRows(f) == Range(f.table.rows)
Files == {"main_matrix", "final_demand", "gva_matrix"}
FilesOf(y) == {f.file : f \in {g \in output : g.year = y}}
CodeText(i) == IF Row(i).code = NA THEN "nan" ELSE Row(i).code
IsGvaRow(i) == CodeText(i) \in GVA_SIC_CODES
RowsOfYear(y) == {i \in GridRows : Row(i).year = y}
DataYears == {Row(i).year : i \in {j \in GridRows : j >= 7}} \ {NaN}
ColumnYears == {Row(i).year : i \in GridRows} \ {NaN}
Ascending(rows) == \A j, k \in 1..Len(rows) : j < k => rows[j] < rows[k]

\* The files of the years of Y, each year once, in ascending order of year,
\* each year's three tables together.
LogInOrder ==
    /\ \A k \in 1..Len(log) :
          log[k][2] = <<"main_matrix", "final_demand", "gva_matrix">>[((k - 1) % 3) + 1]
    /\ \A j, k \in 1..Len(log) :
          /\ (j < k /\ (j - 1) \div 3 = (k - 1) \div 3) => log[j][1] = log[k][1]
          /\ (j - 1) \div 3 < (k - 1) \div 3 => log[j][1] < log[k][1]

LogCovers(Y) ==
    /\ Len(log) = 3 * Cardinality(Y)
    /\ {log[k][1] : k \in 1..Len(log)} = Y
    /\ \A y \in Y : FilesOf(y) = Files

\* C1: the rows extracted for a year split into Industry rows and GVA rows
\* that are disjoint and together are all the grid rows of that year; a row
\* is a GVA row exactly when the text of its Code cell is a GVA code; every
\* year of a completed run is split this way.
C1_Partition ==
    /\ \A s \in sep :
          LET I == Range(s.industry_rows)
              G == Range(s.gva_rows)
          IN /\ I \cap G = {}
             /\ I \cup G = RowsOfYear(s.year)
             /\ \A i \in RowsOfYear(s.year) : (i \in G) <=> IsGvaRow(i)
    /\ pc = "done" => {s.year : s \in sep} = DataYears

C1_Witness ==
    \E s \in sep : s.industry_rows # <<>> /\ s.gva_rows # <<>> /\ pc = "done"

\* C2 as stated: a completed run has written the three tables of every
\* distinct non-missing value of the Year column (any row of the grid), each
\* once, in ascending order of year.
C2_Original ==
    /\ LogInOrder
    /\ pc = "done" => LogCovers(ColumnYears)

\* C2 as amended: a completed run has written the three tables of every
\* distinct non-missing Year value of the data rows (row index >= 7), each
\* once, in ascending order of year, whatever the order of first appearance;
\* the order holds at every point of the run.
C2_AscendingDataYears ==
    /\ LogInOrder
    /\ pc = "done" => LogCovers(DataYears)

C2_Witness ==
    /\ pc = "done"
    /\ NRows >= 9
    /\ Row(7).year = 2
    /\ Row(8).year = 1
    /\ Len(log) = 6

\* C3: a row with a GVA code and year Y is in no table but the GVA matrix of
\* year Y.
C3_GvaRowOnlyInGva ==
    \A f \in output : \A i \in TableRows(f) :
        Row(i).code \in GVA_SIC_CODES => f.file = "gva_matrix" /\ f.year = Row(i).year

C3_Witness ==
    /\ pc = "done"
    /\ Cardinality({f.year : f \in output}) = 2
    /\ \E f \in output : \E i \in TableRows(f) : Row(i).code = "CoE" /\ Row(i).year = 1

\* C4: a row whose Year cell is missing is in no table of any year.
C4_NoMissingYearRow ==
    \A f \in output : \A i \in TableRows(f) : Row(i).year # NaN

C4_Witness ==
    /\ pc = "done"
    /\ output # {}
    /\ \E i \in GridRows : i >= 7 /\ Row(i).year = NaN

\* C5 as stated: called with fewer industry labels than matrix columns
\* sliced, separate_matrices raises nothing and returns a main matrix with
\* every data column, the first of them labelled.
C5_Original ==
    (pc = "returned" /\ industry_headers.len < Min(98, ncols - 3)) =>
        /\ ret.err = "none"
        /\ ret.main_matrix.cols.len = Min(98, ncols - 3)
        /\ ret.main_matrix.columns.len = industry_headers.len

\* C5 as amended: called with fewer industry labels than matrix columns
\* sliced, separate_matrices raises a length-mismatch error and returns no
\* table; whenever it returns, the main and GVA matrices have every matrix
\* column the grid has, each labelled (the labels cut to that width).
C5_ShortLabelsRaise ==
    /\ (pc = "returned" /\ industry_headers.len < Min(98, ncols - 3)) =>
          /\ ret.err = "ValueError"
          /\ ret.main_matrix = NoTable
          /\ ret.gva_matrix = NoTable
    /\ (pc = "returned" /\ ret.err = "none") =>
          /\ ret.main_matrix.cols.len = Min(98, ncols - 3)
          /\ ret.main_matrix.columns.len = Min(98, ncols - 3)
          /\ ret.gva_matrix.cols = ret.main_matrix.cols
          /\ industry_headers.len >= Min(98, ncols - 3)

C5_Witness ==
    /\ pc = "returned"
    /\ industry_headers.len = 90
    /\ ncols >= 101
    /\ ret.err = "ValueError"
    /\ extract_year_data(1) # <<>>

\* C6 as stated: when the write of year Y fails, the tables of every other
\* year of the grid are written all the same.
C6_Original ==
    (pc = "failed" /\ err = "OSError" /\ idx >= 1) =>
        \A y \in Range(years) \ {years[idx]} : FilesOf(y) = Files

\* C6 as amended: when the write of year Y fails the whole run ends there,
\* reporting failure: the tables of the years before Y stay written, and no
\* table of a later year is written.
C6_WriteFailureEndsRun ==
    (err = "OSError" /\ idx >= 1) =>
        /\ pc = "failed"
        /\ \A k \in 1..Len(years) :
              /\ k < idx => FilesOf(years[k]) = Files
              /\ k > idx => FilesOf(years[k]) = {}

C6_Witness ==
    /\ pc = "failed"
    /\ err = "OSError"
    /\ idx = 1
    /\ Len(years) = 2
    /\ FilesOf(years[1]) = {"main_matrix"}

\* C7 as stated: with the header row or a fixed column range outside the
\* grid, the run ends before any table is written: no table is ever written
\* (looked at in runs where no write has failed).
C7_Original ==
    (err = "none" /\ (NRows <= 6 \/ ncols <= 100 \/ ncols <= 116)) => output = {}

\* C7 as amended: a header row (6) outside the grid ends the run with an index
\* error before any table is written; a column range that runs past the last
\* column does not: in a grid with the Year, Code and Name columns no layout
\* error is raised and every table is written from the part of its range the
\* grid has.
C7_HeaderFatalColumnsNarrowed ==
    /\ NRows <= 6 =>
          /\ output = {}
          /\ pc \in {"start", "failed"}
          /\ pc = "failed" => err = "IndexError"
    /\ (NRows >= 7 /\ ncols >= 3) =>
          /\ err \in {"none", "OSError"}
          /\ \A f \in output :
                Cols(f.table.cols) =
                    (IF f.file = "final_demand" THEN 102..116 ELSE 3..100)
                        \cap (0..(ncols - 1))

C7_Witness ==
    /\ pc = "done"
    /\ ncols = 110
    /\ \E f \in output : f.file = "final_demand" /\ f.table.cols.len = 8

\* C8 as stated: main matrix = Industry rows x 98 columns (fewer only in a
\* narrower grid), GVA matrix = GVA rows x the main matrix's column count,
\* final demand = Industry rows x 15 columns (looked at in runs where no
\* write has failed).
C8_Original ==
    err = "none" => \A f \in output :
        LET nInd == Cardinality({i \in RowsOfYear(f.year) : ~IsGvaRow(i)})
            nGva == Cardinality({i \in RowsOfYear(f.year) : IsGvaRow(i)})
        IN CASE f.file = "main_matrix" ->
                    Len(f.table.rows) = nInd /\ f.table.cols.len = Min(98, ncols - 3)
             [] f.file = "gva_matrix" ->
                    Len(f.table.rows) = nGva /\ f.table.cols.len = Min(98, ncols - 3)
             [] OTHER ->
                    Len(f.table.rows) = nInd /\ f.table.cols.len = 15

\* C8 as amended: the same, with final demand = Industry rows x 15 columns,
\* or the number of columns 102..116 the grid has when it has fewer than 117.
C8_Shapes ==
    \A f \in output :
        LET nInd == Cardinality({i \in RowsOfYear(f.year) : ~IsGvaRow(i)})
            nGva == Cardinality({i \in RowsOfYear(f.year) : IsGvaRow(i)})
        IN /\ CASE f.file = "main_matrix" ->
                    Len(f.table.rows) = nInd /\ f.table.cols.len = Min(98, ncols - 3)
                [] f.file = "gva_matrix" ->
                    /\ Len(f.table.rows) = nGva
                    /\ f.table.cols.len = Min(98, ncols - 3)
                    /\ \A g \in output : (g.year = f.year /\ g.file = "main_matrix")
                                            => g.table.cols.len = f.table.cols.len
                [] OTHER ->
                    /\ Len(f.table.rows) = nInd
                    /\ f.table.cols.len = Min(15, Max(0, ncols - 102))
           /\ Len(f.table.index) = Len(f.table.rows)
           /\ f.table.columns.len = f.table.cols.len

C8_Witness ==
    /\ pc = "done"
    /\ ncols = 110
    /\ \E f, g, h \in output :
          /\ f.year = g.year /\ g.year = h.year
          /\ f.file = "main_matrix" /\ Len(f.table.rows) = 2 /\ f.table.cols.len = 98
          /\ g.file = "gva_matrix" /\ Len(g.table.rows) = 1
          /\ h.file = "final_demand" /\ h.table.cols.len = 8

\* C9: in every table the rows are in grid order and each row's label is the
\* row's Name cell.
C9_OrderAndLabels ==
    \A f \in output :
        /\ Ascending(f.table.rows)
        /\ Len(f.table.index) = Len(f.table.rows)
        /\ \A k \in 1..Len(f.table.rows) : f.table.index[k] = Row(f.table.rows[k]).name

C9_Witness ==
    \E f \in output :
        /\ Len(f.table.rows) = 2
        /\ f.table.index[1] # f.table.index[2]

\* C10: no row 0..6 of the grid is in any table.
C10_OnlyDataRows ==
    \A f \in output : \A i \in TableRows(f) : i >= 7

====
